---- MODULE Spec2Model ----
(***************************************************************************)
(* Ambient telemetry-context propagation of bedrock/src/telemetry/mod.rs:  *)
(* TelemetryContext (current, scope, apply, apply_with_tracing_span,       *)
(* with_forked_log), the future wrapper WithTelemetryContext and init.     *)
(*                                                                         *)
(* A log handle (SharedLog) is an index into logs, whose entry is the      *)
(* payload behind the lock: the set of key/value annotations.  A span      *)
(* handle (SharedSpan) is an index into spans; 0 is None.  A test tracer   *)
(* is a number; 0 is None.  Each thread owns one ambient slot and a stack  *)
(* of the guards that are armed on it.                                     *)
(***************************************************************************)
EXTENDS Integers, Sequences, FiniteSets, TLC

VARIABLES ambient, stack, logs, spans, ctxs, units, forks, released, boot

vars == <<ambient, stack, logs, spans, ctxs, units, forks, released, boot>>

(* ---------------- bounds ---------------- *)
MaxCtx == 2
MaxInitCalls == 1
MaxLogs == 3
MaxSpans == 3
MaxDepth == 2
MaxPending == 1

Threads == {1, 2}
Units == {"A", "B"}
Keys == {"k"}
Names == {"req"}
InitLogs == {1, 2}
InitSpans == {0, 1}
Tracers == {0, 1}

(* ---------------- values ---------------- *)
NoSpan == 0
NoTracer == 0
NoGuard == 0 - 1

NoAmb == [log |-> 0, span |-> 0, tracer |-> 0]

AmbientStates == [log : InitLogs, span : InitSpans, tracer : Tracers]

Top(s) == s[Len(s)]
Pop(s) == SubSeq(s, 1, Len(s) - 1)

(* ---------------- the scope module and the log/tracing internals ------- *)
current_log(amb) == amb.log
current_span(amb) == amb.span
current_test_tracer(amb) == amb.tracer

(* XScope::new(v): swaps v into the slot, the guard keeps the prior value.  *)
LogScope_new(amb, l) == [amb |-> [amb EXCEPT !.log = l], guard |-> amb.log]
SpanScope_new(amb, s) == [amb |-> [amb EXCEPT !.span = s], guard |-> amb.span]
TestTracerScope_new(amb, tr) == [amb |-> [amb EXCEPT !.tracer = tr], guard |-> amb.tracer]

(* drop of a guard: the slot gets the saved prior value back.               *)
LogScope_drop(amb, g) == [amb EXCEPT !.log = g]
SpanScope_drop(amb, g) == [amb EXCEPT !.span = g]
TestTracerScope_drop(amb, g) == [amb EXCEPT !.tracer = g]

(* fork_log(): takes no handle; a new payload copied from the ambient log.  *)
fork_log(amb, lg) == lg[current_log(amb)]

(* create_span(name): child of the ambient span, or a root of the ambient   *)
(* test tracer (0: the production tracer) when no span is ambient.          *)
create_span(name, amb, sp) ==
    IF current_span(amb) # NoSpan
    THEN [name |-> name, parent |-> current_span(amb), tracer |-> sp[current_span(amb)].tracer]
    ELSE [name |-> name, parent |-> NoSpan, tracer |-> current_test_tracer(amb)]

(* ---------------- TelemetryContext ---------------- *)
(* current() of a non-test build: the test tracer field does not exist.    *)
current_no_tracer(amb) ==
    [log |-> current_log(amb), span |-> current_span(amb), tracer |-> NoTracer]

(* current(): the three ambient handles, cloned.                           *)
current(amb) ==
    [log |-> current_log(amb), span |-> current_span(amb), tracer |-> current_test_tracer(amb)]

(* scope() with the test tracer guard forgotten: the tracer is installed    *)
(* and nothing restores it.                                                *)
scope_forgets_tracer(c, amb) ==
    LET a1 == LogScope_new(amb, c.log)
        a2 == IF c.span # NoSpan
              THEN SpanScope_new(a1.amb, c.span)
              ELSE [amb |-> a1.amb, guard |-> NoGuard]
        a3 == IF c.tracer # NoTracer
              THEN TestTracerScope_new(a2.amb, c.tracer)
              ELSE [amb |-> a2.amb, guard |-> NoGuard]
    IN  [amb |-> a3.amb, guard |-> [log |-> a1.guard, span |-> a2.guard, tracer |-> NoGuard]]

(* scope() that leaves the ambient log in place instead of installing the *)
(* handle of the context.                                                  *)
scope_keeps_log(c, amb) ==
    LET a2 == IF c.span # NoSpan
              THEN SpanScope_new(amb, c.span)
              ELSE [amb |-> amb, guard |-> NoGuard]
        a3 == IF c.tracer # NoTracer
              THEN TestTracerScope_new(a2.amb, c.tracer)
              ELSE [amb |-> a2.amb, guard |-> NoGuard]
    IN  [amb |-> a3.amb, guard |-> [log |-> amb.log, span |-> a2.guard, tracer |-> a3.guard]]

(* scope(&self): one guard per sub-state; Option::map leaves the span and   *)
(* the test tracer slots alone when the context has none.                  *)
scope(c, amb) ==
    LET a1 == LogScope_new(amb, c.log)
        a2 == IF c.span # NoSpan
              THEN SpanScope_new(a1.amb, c.span)
              ELSE [amb |-> a1.amb, guard |-> NoGuard]
        a3 == IF c.tracer # NoTracer
              THEN TestTracerScope_new(a2.amb, c.tracer)
              ELSE [amb |-> a2.amb, guard |-> NoGuard]
    IN  [amb |-> a3.amb, guard |-> [log |-> a1.guard, span |-> a2.guard, tracer |-> a3.guard]]

(* drop of TelemetryScope: the fields drop in declaration order.            *)
TelemetryScope_drop(amb, g) ==
    LET a1 == LogScope_drop(amb, g.log)
        a2 == IF g.span # NoGuard THEN SpanScope_drop(a1, g.span) ELSE a1
        a3 == IF g.tracer # NoGuard THEN TestTracerScope_drop(a2, g.tracer) ELSE a2
    IN  a3


(* apply(self, fut): the wrapper owns the boxed inner future and the        *)
(* context.                                                                *)
apply(c, fut) == [inner |-> fut, ctx |-> c]

(* apply_with_tracing_span that defers the span to the first poll: no      *)
(* span is made by the call.                                               *)
apply_with_tracing_span_lazy(c, name, fut, amb, sp) ==
    [unit |-> apply(c, fut), spans |-> sp, amb |-> amb]

(* apply_with_tracing_span whose micro-scope is never released.            *)
apply_with_tracing_span_leak(c, name, fut, amb, sp) ==
    LET sc == IF c.span # NoSpan
              THEN SpanScope_new(amb, c.span)
              ELSE [amb |-> amb, guard |-> NoGuard]
        sp2 == Append(sp, create_span(name, sc.amb, sp))
        c2 == [c EXCEPT !.span = Len(sp2)]
    IN  [unit |-> apply(c2, fut), spans |-> sp2, amb |-> sc.amb]

(* apply_with_tracing_span(self, span_name, fut)                           *)
apply_with_tracing_span(c, name, fut, amb, sp) ==
    LET sc == IF c.span # NoSpan
              THEN SpanScope_new(amb, c.span)
              ELSE [amb |-> amb, guard |-> NoGuard]
        sp2 == Append(sp, create_span(name, sc.amb, sp))
        c2 == [c EXCEPT !.span = Len(sp2)]
        out == IF sc.guard # NoGuard THEN SpanScope_drop(sc.amb, sc.guard) ELSE sc.amb
    IN  [unit |-> apply(c2, fut), spans |-> sp2, amb |-> out]

(* with_forked_log that clones the handle instead of forking it.           *)
with_forked_log_alias(c, amb, lg) == [ctx |-> c, logs |-> lg]

(* with_forked_log(&self)                                                  *)
with_forked_log(c, amb, lg) ==
    [ctx |-> [log |-> Len(lg) + 1, span |-> c.span, tracer |-> c.tracer],
     logs |-> Append(lg, fork_log(amb, lg))]

(* ---------------- WithTelemetryContext::poll ---------------- *)
(* `let _ = self.ctx.scope();`: the bundle is dropped at once, the inner   *)
(* future runs with nothing installed.                                     *)
poll_scope_dropped(w, amb) ==
    [amb |-> amb, guard |-> [log |-> amb.log, span |-> NoGuard, tracer |-> NoGuard]]

(* let _telemetry_scope = self.ctx.scope();                                *)
poll_scope(w, amb) == scope(w.ctx, amb)

(* self.inner.as_mut().poll(cx): one step of the inner future, which       *)
(* gives out; a future is the number of steps it has taken.                *)
inner_poll(fut, out) == [out |-> out, inner |-> fut + 1]

(* a poll that swallows the inner result and always reports Pending.       *)
poll_result_pending(out) == "pending"

(* the value poll returns is the inner step's value.                       *)
poll_result(out) == out

(* a poll that leaks its guard (kept alive past the return).               *)
poll_return_leak(amb, g) == amb

(* end of poll: _telemetry_scope goes out of scope.                        *)
poll_return(amb, g) == TelemetryScope_drop(amb, g)

(* an unwind that forgets the bundle (the guard is leaked, not dropped).    *)
poll_unwind_skip(amb, g) == amb

(* the inner poll panics: unwinding leaves poll and drops _telemetry_scope. *)
poll_unwind(amb, g) == TelemetryScope_drop(amb, g)

(* a Drop impl that pops the span slot though no guard is armed.           *)
drop_unit_pops(amb) == [amb EXCEPT !.span = NoSpan]

(* drop of a WithTelemetryContext: its fields (inner, ctx) are dropped;    *)
(* there is no Drop impl and no guard is among the fields.                 *)
drop_unit(amb) == amb

Outcomes == {"pending", "ready"}

(* ---------------- init ---------------- *)
LogResults == {"Ok", "LogErr"}
TracerResults == {"Ok", "TracerErr"}

(* init without the first `?`: the log-sink error is dropped.              *)
init_ignores_log_error(logRes, trRes) ==
    IF trRes # "Ok"
    THEN [trace |-> <<"log", "tracer">>, result |-> trRes]
    ELSE [trace |-> <<"log", "tracer">>, result |-> "Ok"]

(* log::init::init(..)?; tracing::init::init(..)?; Ok(())                  *)
init(logRes, trRes) ==
    IF logRes # "Ok"
    THEN [trace |-> <<"log">>, result |-> logRes]
    ELSE IF trRes # "Ok"
         THEN [trace |-> <<"log", "tracer">>, result |-> trRes]
         ELSE [trace |-> <<"log", "tracer">>, result |-> "Ok"]

(* ---------------- state ---------------- *)
(* history of ScopeRelease: the last bundle released at each depth.        *)
NoRelease == [ctx |-> NoAmb, pre |-> NoAmb, during |-> NoAmb, post |-> NoAmb]

NoBoot == [n |-> 0, logRes |-> "Ok", trRes |-> "Ok", trace |-> <<>>, result |-> "none"]

NoUnit ==
    [ctx |-> NoAmb, inner |-> 0, st |-> "none", polls |-> 0, ipolls |-> 0,
     ret |-> "none", iout |-> "none", seen |-> NoAmb, before |-> NoAmb, after |-> NoAmb,
     kind |-> "none", name |-> "", from |-> NoAmb, callPre |-> NoAmb, callPost |-> NoAmb,
     callDepth |-> 0]

InitCommon ==
    /\ stack = [t \in Threads |-> <<>>]
    /\ logs = [l \in InitLogs |-> {}]
    /\ spans = <<[name |-> "root", parent |-> NoSpan, tracer |-> NoTracer]>>
    /\ ctxs = <<>>
    /\ units = [u \in Units |-> NoUnit]
    /\ forks = <<>>
    /\ released = [d \in 1..MaxDepth |-> NoRelease]
    /\ boot = NoBoot

Main == CHOOSE t \in Threads : \A o \in Threads : t <= o

(* one executor thread; the slot of the other thread is never used.        *)
InitOne ==
    /\ InitCommon
    /\ \E a \in AmbientStates :
          ambient = [t \in Threads |-> IF t = Main THEN a ELSE [log |-> 1, span |-> NoSpan, tracer |-> NoTracer]]

(* one executor thread at start-up: the root log, no span, no test tracer. *)
InitRoot ==
    /\ InitCommon
    /\ ambient = [t \in Threads |-> [log |-> 1, span |-> NoSpan, tracer |-> NoTracer]]

InitTwo ==
    /\ InitCommon
    /\ ambient \in [Threads -> [log : {1}, span : InitSpans, tracer : Tracers]]

(* the shape of the state: ambient is the slot of each thread, stack its   *)
(* armed guards (innermost last), logs and spans the payloads behind the   *)
(* handles, ctxs the contexts made so far, units the wrapped futures.      *)
TypeOK ==
    /\ \A t \in Threads :
          /\ ambient[t].log \in 1..Len(logs)
          /\ ambient[t].span \in 0..Len(spans)
          /\ ambient[t].tracer \in Tracers
          /\ Len(stack[t]) <= MaxDepth
          /\ \A i \in 1..Len(stack[t]) : stack[t][i].kind \in {"scope", "poll"}
    /\ Len(logs) <= MaxLogs /\ \A l \in 1..Len(logs) : logs[l] \subseteq Keys
    /\ Len(spans) <= MaxSpans /\ \A i \in 1..Len(spans) : spans[i].parent \in 0..(i - 1)
    /\ Len(ctxs) <= MaxCtx /\ Len(forks) <= Len(ctxs)
    /\ \A u \in Units :
          /\ units[u].st \in {"none", "idle", "polling", "done", "dropped", "panicked"}
          /\ units[u].ret \in Outcomes \cup {"none", "panic"}
          /\ units[u].inner <= MaxPending + 1
    /\ boot.n <= MaxInitCalls

(* the contexts a caller can hold: snapshots taken earlier, and the ones   *)
(* made in this run.                                                       *)
KnownCtx == AmbientStates \cup {ctxs[i] : i \in 1..Len(ctxs)}

Frame(kind, u, c, g, pre) == [kind |-> kind, unit |-> u, ctx |-> c, guard |-> g, pre |-> pre]

(* ---------------- actions ---------------- *)
Current(t) ==
    /\ Len(ctxs) < MaxCtx
    /\ ctxs' = Append(ctxs, current(ambient[t]))
    /\ UNCHANGED <<ambient, stack, logs, spans, units, forks, released, boot>>

ScopeAcquire(t, c) ==
    /\ Len(stack[t]) < MaxDepth
    /\ LET r == scope(c, ambient[t]) IN
        /\ ambient' = [ambient EXCEPT ![t] = r.amb]
        /\ stack' = [stack EXCEPT ![t] = Append(@, Frame("scope", "", c, r.guard, ambient[t]))]
        /\ released' = [d \in 1..MaxDepth |-> IF d > Len(stack[t]) THEN NoRelease ELSE released[d]]
    /\ UNCHANGED <<logs, spans, ctxs, units, forks, boot>>

ScopeRelease(t) ==
    /\ stack[t] # <<>>
    /\ Top(stack[t]).kind = "scope"
    /\ ambient' = [ambient EXCEPT ![t] = TelemetryScope_drop(@, Top(stack[t]).guard)]
    /\ stack' = [stack EXCEPT ![t] = Pop(@)]
    /\ released' = [released EXCEPT ![Len(stack[t])] =
                        [ctx |-> Top(stack[t]).ctx, pre |-> Top(stack[t]).pre,
                         during |-> ambient[t], post |-> ambient'[t]]]
    /\ UNCHANGED <<logs, spans, ctxs, units, forks, boot>>

(* add_fields through the ambient log of the thread.                       *)
Annotate(t, k) ==
    /\ k \notin logs[current_log(ambient[t])]
    /\ logs' = [logs EXCEPT ![current_log(ambient[t])] = @ \cup {k}]
    /\ UNCHANGED <<ambient, stack, spans, ctxs, units, forks, released, boot>>

(* an annotation through the log handle of a context.                      *)
AnnotateCtx(c, k) ==
    /\ k \notin logs[c.log]
    /\ logs' = [logs EXCEPT ![c.log] = @ \cup {k}]
    /\ UNCHANGED <<ambient, stack, spans, ctxs, units, forks, released, boot>>

WithForkedLog(t, c) ==
    /\ Len(ctxs) < MaxCtx
    /\ Len(logs) < MaxLogs
    /\ ambient' = ambient
    /\ LET r == with_forked_log(c, ambient[t], logs) IN
        /\ ctxs' = Append(ctxs, r.ctx)
        /\ logs' = r.logs
        /\ forks' = Append(forks, [src |-> c, out |-> r.ctx, srcKeys |-> logs[c.log],
                                    outKeys |-> r.logs[r.ctx.log], nlogs |-> Len(logs),
                                    pre |-> ambient[t], post |-> ambient'[t]])
    /\ UNCHANGED <<stack, spans, units, released, boot>>

NewUnit(w, kind, name, from, pre, post, depth) ==
    [NoUnit EXCEPT !.ctx = w.ctx, !.inner = w.inner, !.st = "idle", !.kind = kind,
                   !.name = name, !.from = from, !.callPre = pre, !.callPost = post,
                   !.callDepth = depth]

Apply(t, u, c) ==
    /\ units[u].st = "none"
    /\ ambient' = ambient
    /\ units' = [units EXCEPT ![u] = NewUnit(apply(c, 0), "apply", "", c, ambient[t], ambient'[t], Len(stack[t]))]
    /\ UNCHANGED <<stack, logs, spans, ctxs, forks, released, boot>>

ApplyWithTracingSpan(t, u, c, name) ==
    /\ units[u].st = "none"
    /\ Len(spans) < MaxSpans
    /\ LET r == apply_with_tracing_span(c, name, 0, ambient[t], spans) IN
        /\ spans' = r.spans
        /\ ambient' = [ambient EXCEPT ![t] = r.amb]
        /\ units' = [units EXCEPT ![u] = NewUnit(r.unit, "span", name, c, ambient[t], r.amb, Len(stack[t]))]
    /\ UNCHANGED <<stack, logs, ctxs, forks, released, boot>>

(* poll up to the point where the inner future runs under the scope.       *)
PollBegin(t, u) ==
    /\ units[u].st = "idle"
    /\ Len(stack[t]) < MaxDepth
    /\ LET r == poll_scope(units[u], ambient[t]) IN
        /\ ambient' = [ambient EXCEPT ![t] = r.amb]
        /\ stack' = [stack EXCEPT ![t] = Append(@, Frame("poll", u, units[u].ctx, r.guard, ambient[t]))]
        /\ units' = [units EXCEPT ![u].st = "polling", ![u].polls = @ + 1,
                                  ![u].seen = current(r.amb), ![u].before = ambient[t]]
    /\ UNCHANGED <<logs, spans, ctxs, forks, released, boot>>

(* the inner step returns, the guard is dropped, poll returns.             *)
PollEnd(t, out) ==
    /\ stack[t] # <<>>
    /\ Top(stack[t]).kind = "poll"
    /\ out = "pending" => units[Top(stack[t]).unit].inner < MaxPending
    /\ LET f == Top(stack[t])
           u == f.unit
           r == inner_poll(units[u].inner, out)
           a == poll_return(ambient[t], f.guard)
       IN
        /\ ambient' = [ambient EXCEPT ![t] = a]
        /\ stack' = [stack EXCEPT ![t] = Pop(@)]
        /\ units' = [units EXCEPT ![u].inner = r.inner, ![u].ipolls = @ + 1,
                                  ![u].ret = poll_result(r.out), ![u].iout = r.out,
                                  ![u].st = IF poll_result(r.out) = "ready" THEN "done" ELSE "idle",
                                  ![u].after = a]
    /\ UNCHANGED <<logs, spans, ctxs, forks, released, boot>>

(* the inner step panics; the unwind leaves the innermost poll in         *)
(* progress on the thread. An enclosing poll either catches the panic and  *)
(* goes on (PollEnd) or unwinds in turn (PollUnwind again).                *)
PollUnwind(t) ==
    /\ stack[t] # <<>>
    /\ Top(stack[t]).kind = "poll"
    /\ LET f == Top(stack[t])
           u == f.unit
           a == poll_unwind(ambient[t], f.guard)
       IN
        /\ ambient' = [ambient EXCEPT ![t] = a]
        /\ stack' = [stack EXCEPT ![t] = Pop(@)]
        /\ units' = [units EXCEPT ![u].ipolls = @ + 1, ![u].ret = "panic", ![u].iout = "panic",
                                  ![u].st = "panicked", ![u].after = a]
    /\ UNCHANGED <<logs, spans, ctxs, forks, released, boot>>

(* the inner unit, while it is being resumed, starts a span.               *)
StartSpan(t, name) ==
    /\ stack[t] # <<>>
    /\ Top(stack[t]).kind = "poll"
    /\ Len(spans) < MaxSpans
    /\ spans' = Append(spans, create_span(name, ambient[t], spans))
    /\ UNCHANGED <<ambient, stack, logs, ctxs, units, forks, released, boot>>

(* the owner drops a wrapper that is not being polled.                     *)
DropUnit(t, u) ==
    /\ units[u].st = "idle"
    /\ units' = [units EXCEPT ![u].st = "dropped"]
    /\ ambient' = [ambient EXCEPT ![t] = drop_unit(@)]
    /\ UNCHANGED <<stack, logs, spans, ctxs, forks, released, boot>>

InitCall(logRes, trRes) ==
    /\ boot.n < MaxInitCalls
    /\ LET r == init(logRes, trRes) IN
        boot' = [n |-> boot.n + 1, logRes |-> logRes, trRes |-> trRes,
                 trace |-> r.trace, result |-> r.result]
    /\ UNCHANGED <<ambient, stack, logs, spans, ctxs, units, forks, released>>

(* ---------------- specifications ---------------- *)
(* scopes on one thread, after start-up                                    *)
NextScope ==
    \/ \E lr \in LogResults, tr \in TracerResults : InitCall(lr, tr)
    \/ \E c \in KnownCtx : ScopeAcquire(Main, c)
    \/ ScopeRelease(Main)

Spec == InitOne /\ [][NextScope]_vars

(* wrapped units on one executor thread                                    *)
NextTask ==
    \/ \E u \in Units, c \in KnownCtx : Apply(Main, u, c)
    \/ \E u \in Units, c \in KnownCtx, name \in Names : ApplyWithTracingSpan(Main, u, c, name)
    \/ \E u \in Units : PollBegin(Main, u)
    \/ \E out \in Outcomes : PollEnd(Main, out)
    \/ \E u \in Units : DropUnit(Main, u)

SpecTask == InitOne /\ [][NextTask]_vars

(* wrapped units on a work-stealing executor of two threads                *)
NextSteal ==
    \/ \E u \in Units, c \in KnownCtx : Apply(Main, u, c)
    \/ \E t \in Threads, u \in Units : PollBegin(t, u)
    \/ \E t \in Threads, out \in Outcomes : PollEnd(t, out)

SpecSteal == InitTwo /\ [][NextSteal]_vars

(* log handles: forks and annotations                                      *)
NextLog ==
    \/ Current(Main)
    \/ \E c \in KnownCtx : WithForkedLog(Main, c)
    \/ \E k \in Keys : Annotate(Main, k)
    \/ \E c \in KnownCtx, k \in Keys : AnnotateCtx(c, k)

SpecLog == InitOne /\ [][NextLog]_vars

(* wrapped units whose inner step may panic                                *)
NextUnwind ==
    \/ \E u \in Units, c \in KnownCtx : Apply(Main, u, c)
    \/ \E u \in Units : PollBegin(Main, u)
    \/ \E out \in Outcomes : PollEnd(Main, out)
    \/ PollUnwind(Main)

SpecUnwind == InitOne /\ [][NextUnwind]_vars

(* an executor that keeps resuming the wrapped units it was given: a unit  *)
(* that is ready to run is eventually resumed, a step that was begun       *)
(* eventually returns.                                                     *)
NextLive ==
    \/ \E u \in Units, c \in KnownCtx : Apply(Main, u, c)
    \/ \E u \in Units : PollBegin(Main, u)
    \/ \E out \in Outcomes : PollEnd(Main, out)

SpecLive ==
    /\ InitOne
    /\ [][NextLive]_vars
    /\ \A u \in Units : WF_vars(PollBegin(Main, u))
    /\ WF_vars(\E out \in Outcomes : PollEnd(Main, out))

(* the contexts a unit is wrapped with here: the snapshots taken in this   *)
(* run, and contexts of another request (another log, a span).             *)
SnapshotCtx ==
    {ctxs[i] : i \in 1..Len(ctxs)} \cup {c \in AmbientStates : c.log # 1 /\ c.span # NoSpan}

(* the one wrapped unit of the runs below                                  *)
Solo == CHOOSE u \in Units : TRUE

(* snapshots of the ambient state, taken and scoped outside and inside the *)
(* resumptions of a wrapped unit                                           *)
NextCurrent ==
    \/ Current(Main)
    \/ \E i \in 1..Len(ctxs) : ScopeAcquire(Main, ctxs[i])
    \/ ScopeRelease(Main)
    \/ \E c \in SnapshotCtx : Apply(Main, Solo, c)
    \/ PollBegin(Main, Solo)
    \/ \E out \in Outcomes : PollEnd(Main, out)
    \/ DropUnit(Main, Solo)

SpecCurrent == InitOne /\ [][NextCurrent]_vars

(* forked and cloned contexts, scoped and applied at the top level of the  *)
(* thread, with annotations made through the ambient log                   *)
NextAlias ==
    \/ \E c \in SnapshotCtx : WithForkedLog(Main, c)
    \/ \E k \in Keys : Annotate(Main, k)
    \/ \E i \in 1..Len(ctxs) : stack[Main] = <<>> /\ ScopeAcquire(Main, ctxs[i])
    \/ ScopeRelease(Main)
    \/ \E u \in Units, i \in 1..Len(ctxs) : Apply(Main, u, ctxs[i])
    \/ \E u \in Units : stack[Main] = <<>> /\ PollBegin(Main, u)
    \/ \E out \in Outcomes : PollEnd(Main, out)

SpecAlias == InitRoot /\ [][NextAlias]_vars

(* wrapped units that start spans of their own while they run             *)
NextTrace ==
    \/ \E u \in Units, c \in KnownCtx : Apply(Main, u, c)
    \/ \E u \in Units, c \in KnownCtx, name \in Names : ApplyWithTracingSpan(Main, u, c, name)
    \/ \E u \in Units : PollBegin(Main, u)
    \/ \E out \in Outcomes : PollEnd(Main, out)
    \/ \E name \in Names : StartSpan(Main, name)

SpecTrace == InitOne /\ [][NextTrace]_vars

(* ---------------- properties ---------------- *)
Polled(u) == units[u].polls > 0
Completed(u) == units[u].ipolls > 0

(* C1: restoration law. apply leaves the ambient state as it was, every     *)
(* completed resumption of a wrapped unit leaves the ambient state as it   *)
(* found it, and once a unit applied outside any scope has completed and   *)
(* control is back outside any scope, the ambient state is the one seen    *)
(* right before apply was invoked.                                         *)
C1_Restoration ==
    \A u \in Units :
        /\ units[u].kind = "apply" => units[u].callPost = units[u].callPre
        /\ (Completed(u) /\ units[u].st # "polling") => units[u].after = units[u].before
        /\ (units[u].kind = "apply" /\ units[u].st = "done" /\ units[u].callDepth = 0
                /\ stack[Main] = <<>>)
              => ambient[Main] = units[u].callPre

(* a unit whose context differs from the ambient state in every sub-state  *)
(* has completed after one suspension, and control is back at the top.     *)
C1_Witness ==
    \E u \in Units :
        /\ units[u].kind = "apply" /\ units[u].st = "done" /\ units[u].ipolls = 2
        /\ units[u].callDepth = 0 /\ stack[Main] = <<>>
        /\ units[u].seen.log # units[u].before.log
        /\ units[u].seen.span # units[u].before.span
        /\ units[u].seen.tracer # units[u].before.tracer

(* C2: isolation law. With two wrapped units on one thread, every           *)
(* resumption of a unit observes exactly the context it was built with     *)
(* (log, span and test tracer).                                            *)
C2_Isolation ==
    (\A u \in Units : units[u].st # "none")
        => \A u \in Units : Polled(u) => units[u].seen = units[u].ctx

(* C3: while the bundle of C.scope() is held the ambient slot holds         *)
(* exactly C's log, span and test tracer, and after the release the        *)
(* ambient state is the prior one.                                         *)
C3_ScopeInstallsContext ==
    /\ \A t \in Threads :
          (stack[t] # <<>> /\ Top(stack[t]).kind = "scope") => ambient[t] = Top(stack[t]).ctx
    /\ \A d \in 1..MaxDepth :
          released[d] # NoRelease =>
              released[d].during = released[d].ctx /\ released[d].post = released[d].pre

(* C4: the span of C.apply_with_tracing_span(name, W) is named name, is the *)
(* ambient span while W runs, and its parent is C's span: it is a root     *)
(* when C's span is absent.                                                *)
C4_SpanNesting ==
    \A u \in Units :
        units[u].kind = "span" =>
            /\ units[u].ctx.span # NoSpan
            /\ spans[units[u].ctx.span].name = units[u].name
            /\ spans[units[u].ctx.span].parent = units[u].from.span
            /\ Polled(u) => units[u].seen.span = units[u].ctx.span

(* C5: fork independence. After C2 = C1.with_forked_log(), a step that      *)
(* changes what C2's log handle shows leaves what C1's log handle shows    *)
(* as it was, and the other way round.                                     *)
C5_ForkIndependence ==
    [][\A i \in 1..Len(forks) :
          LET l1 == forks[i].src.log
              l2 == forks[i].out.log
          IN  /\ logs'[l2] # logs[l2] => logs'[l1] = logs[l1]
              /\ logs'[l1] # logs[l1] => logs'[l2] = logs[l2]]_vars

(* a key annotated through the fork after the fork is missing from the     *)
(* original, and a later key of the original is missing from another fork. *)
C5_Witness ==
    \E i \in 1..Len(forks) :
        \E k \in Keys :
            /\ k \notin forks[i].outKeys
            /\ k \in logs[forks[i].out.log]
            /\ k \notin logs[forks[i].src.log]

(* C6: C.with_forked_log() keeps C's span and test tracer, leaves the       *)
(* ambient state alone, and its log is a new handle that starts with the   *)
(* annotations of C's own log.                                             *)
C6_ForkOfOwnLog ==
    \A i \in 1..Len(forks) :
        /\ forks[i].out.span = forks[i].src.span
        /\ forks[i].out.tracer = forks[i].src.tracer
        /\ forks[i].out.log > forks[i].nlogs
        /\ forks[i].post = forks[i].pre
        /\ forks[i].outKeys = forks[i].srcKeys

(* C7: guard stacking. Bundles released in the reverse order of their       *)
(* acquisition: each release restores the ambient state present just       *)
(* before that bundle was acquired, and after the last release the state   *)
(* is the one before the first acquisition.                                *)
C7_GuardStacking ==
    /\ \A d \in 1..MaxDepth : released[d] # NoRelease => released[d].post = released[d].pre
    /\ \A t \in Threads :
          \A i \in 1..Len(stack[t]) :
              stack[t][i].kind = "scope" =>
                  LET now == IF i = Len(stack[t]) THEN ambient[t] ELSE stack[t][i + 1].pre
                  IN  TelemetryScope_drop(now, stack[t][i].guard) = stack[t][i].pre
    /\ (stack[Main] = <<>> /\ released[1] # NoRelease) => ambient[Main] = released[1].pre

(* two nested bundles, each of which changed the ambient state, have been  *)
(* released inner first.                                                   *)
C7_Witness ==
    /\ stack[Main] = <<>>
    /\ released[1] # NoRelease /\ released[2] # NoRelease
    /\ released[2].pre = released[1].during
    /\ released[1].during # released[1].pre
    /\ released[2].during.log # released[2].pre.log
    /\ released[2].during.span # released[2].pre.span
    /\ released[2].during.tracer # released[2].pre.tracer

(* C8: cancellation. Dropping a suspended wrapped unit changes no ambient   *)
(* slot, and a dropped unit is never resumed.                              *)
C8_Cancellation ==
    [][\A u \in Units :
          /\ (units[u].st # "dropped" /\ units'[u].st = "dropped") => ambient' = ambient
          /\ units[u].st = "dropped" => units'[u] = units[u]]_vars

(* one unit was dropped after a resumption that returned pending, the      *)
(* other before its first resumption, under an ambient span.               *)
C8_Witness ==
    /\ \E u \in Units : units[u].st = "dropped" /\ units[u].ret = "pending"
    /\ \E u \in Units : units[u].st = "dropped" /\ units[u].polls = 0
    /\ ambient[Main].span # NoSpan

(* C9: on a work-stealing executor every resumption observes exactly the    *)
(* unit's context on the thread that runs it, a resumption leaves the      *)
(* thread's slot as it found it, and a slot changes only by a guard of its *)
(* own thread.                                                             *)
C9_WorkStealing ==
    [][/\ \A u \in Units : units'[u].polls > 0 => units'[u].seen = units'[u].ctx
       /\ \A u \in Units :
             (units'[u].ipolls > 0 /\ units'[u].st # "polling") => units'[u].after = units'[u].before
       /\ \A t \in Threads : stack'[t] = stack[t] => ambient'[t] = ambient[t]]_vars

(* C10: init calls the log-sink initializer first and the tracer            *)
(* initializer second, each at most once; it succeeds only if both did; a  *)
(* log-sink failure is returned without calling the tracer initializer; a  *)
(* tracer failure is returned.                                             *)
C10_InitOrder ==
    boot.n > 0 =>
        /\ boot.trace \in {<<"log">>, <<"log", "tracer">>}
        /\ boot.result = "Ok" =>
              boot.logRes = "Ok" /\ boot.trRes = "Ok" /\ boot.trace = <<"log", "tracer">>
        /\ boot.logRes # "Ok" => boot.result = boot.logRes /\ boot.trace = <<"log">>
        /\ (boot.logRes = "Ok" /\ boot.trRes # "Ok") => boot.result = boot.trRes

(* the log-sink initializer failed where the tracer initializer would not. *)
C10_Witness ==
    boot.n > 0 /\ boot.logRes = "LogErr" /\ boot.trRes = "Ok" /\ boot.result = "LogErr"

(* C11: the call C.apply_with_tracing_span(name, W) leaves the ambient      *)
(* state of the caller as it was (the micro-scope is released before the   *)
(* return), every completed resumption of the unit leaves the ambient      *)
(* state as it found it, and once the unit made outside any scope has      *)
(* completed, current() reports the log and span seen before the call.     *)
C11_SpanCallFrame ==
    \A u \in Units :
        units[u].kind = "span" =>
            /\ units[u].callPost = units[u].callPre
            /\ (Completed(u) /\ units[u].st # "polling") => units[u].after = units[u].before
            /\ (units[u].st = "done" /\ units[u].callDepth = 0 /\ stack[Main] = <<>>)
                  => current(ambient[Main]) = units[u].callPre

(* the micro-scope swapped the span slot (C has a span, none was ambient), *)
(* and the unit has completed after one suspension.                        *)
C11_Witness ==
    \E u \in Units :
        /\ units[u].kind = "span" /\ units[u].st = "done" /\ units[u].ipolls = 2
        /\ units[u].from.span # NoSpan
        /\ units[u].callPre.span = NoSpan
        /\ units[u].callDepth = 0 /\ stack[Main] = <<>>

(* the guards a unit has armed: its poll frames on any thread.             *)
FramesOf(u) ==
    {p \in Threads \X (1..MaxDepth + 1) :
        /\ p[2] <= Len(stack[p[1]])
        /\ stack[p[1]][p[2]].kind = "poll"
        /\ stack[p[1]][p[2]].unit = u}

(* C12: a resumption in progress holds exactly one bundle, armed before    *)
(* the inner unit runs (the inner unit sees the context's log, the guard   *)
(* keeps the prior one); when no resumption of the unit is in progress,    *)
(* whether the last step was pending or ready, no guard of the unit is     *)
(* armed, every acquisition has been released and the ambient slot is as   *)
(* the resumption found it.                                                *)
C12_ScopePerResumption ==
    \A u \in Units :
        /\ units[u].st = "polling" =>
              /\ Cardinality(FramesOf(u)) = 1
              /\ \A p \in FramesOf(u) :
                    /\ stack[p[1]][p[2]].guard.log = stack[p[1]][p[2]].pre.log
                    /\ stack[p[1]][p[2]].pre = units[u].before
              /\ units[u].seen.log = units[u].ctx.log
              /\ units[u].polls = units[u].ipolls + 1
        /\ units[u].st # "polling" =>
              /\ FramesOf(u) = {}
              /\ units[u].polls = units[u].ipolls
              /\ Completed(u) => units[u].after = units[u].before

(* one unit is suspended after a resumption that installed another log,    *)
(* the other has completed; no guard is armed on either thread.            *)
C12_Witness ==
    /\ \E u \in Units :
          /\ units[u].st = "idle" /\ units[u].ret = "pending"
          /\ units[u].seen.log # units[u].before.log
    /\ \E u \in Units : units[u].st = "done" /\ units[u].seen # units[u].before
    /\ \A t \in Threads : stack[t] = <<>>

(* C13: when the inner step panics while the bundle of poll is armed, the  *)
(* bundle is released once (no guard of the unit stays armed, none is      *)
(* released a second time) and the ambient state left behind by the        *)
(* unwind is the one the poll found.                                       *)
C13_UnwindRestores ==
    \A u \in Units :
        units[u].st = "panicked" =>
            /\ FramesOf(u) = {}
            /\ units[u].polls = units[u].ipolls
            /\ units[u].after = units[u].before
            /\ (stack[Main] = <<>> /\ units[u].callDepth = 0) =>
                  current(ambient[Main]) = units[u].callPre

(* a unit panicked on its second resumption, under a context that had      *)
(* replaced the log, the span and the test tracer of the thread.           *)
C13_Witness ==
    \E u \in Units :
        /\ units[u].st = "panicked" /\ units[u].polls = 2
        /\ units[u].seen.log # units[u].before.log
        /\ units[u].seen.span # units[u].before.span
        /\ units[u].seen.tracer # units[u].before.tracer

(* what a returned resumption of unit u leaves: one step of the inner unit *)
(* per resumption, the outcome of that step handed back unchanged, done    *)
(* exactly when the inner unit was ready.                                  *)
Transparent(u) ==
    (Completed(u) /\ units[u].st # "polling") =>
        /\ units[u].ipolls = units[u].polls
        /\ units[u].inner = units[u].polls
        /\ units[u].ret = units[u].iout
        /\ units[u].st = "done" <=> units[u].iout = "ready"

(* C14: the wrapper keeps the suspend/resume contract of the inner unit:   *)
(* each resumption performs one inner step and returns its outcome         *)
(* unchanged, and when the executor keeps resuming it, a wrapped unit      *)
(* whose inner unit completes after finitely many steps completes.         *)
C14_Transparent ==
    /\ [](\A u \in Units : Transparent(u))
    /\ \A u \in Units : (units[u].st = "idle") ~> (units[u].st = "done")

(* a unit completed on its second resumption, after one pending step.      *)
C14_Witness ==
    \E u \in Units :
        /\ units[u].st = "done" /\ units[u].polls = 2 /\ units[u].inner = 2
        /\ units[u].ret = "ready"
        /\ units[u].seen # units[u].before

(* C15: the call of apply_with_tracing_span makes exactly one span and     *)
(* stores it in the context of the wrapper, before any resumption; no      *)
(* later step makes another span, changes the stored span or its parent;   *)
(* every resumption installs that span as the ambient span, whatever span  *)
(* the thread had when the resumption began.                               *)
C15_SpanAtCallTime ==
    [][\A u \in Units :
          /\ (units[u].st = "none" /\ units'[u].kind = "span") =>
                /\ Len(spans') = Len(spans) + 1
                /\ units'[u].ctx.span = Len(spans')
                /\ units'[u].polls = 0
          /\ (\A v \in Units : units'[v].kind = units[v].kind) => spans' = spans
          /\ units[u].kind = "span" =>
                /\ units'[u].ctx = units[u].ctx
                /\ spans'[units[u].ctx.span] = spans[units[u].ctx.span]
                /\ units'[u].polls > units[u].polls =>
                      /\ current_span(ambient'[Main]) = units[u].ctx.span
                      /\ units'[u].seen.span = units[u].ctx.span
    ]_vars

(* a span-wrapped unit was resumed twice, the second time nested in a      *)
(* resumption of another unit, so under an ambient span that is neither    *)
(* the one of the call nor the parent of its own span.                     *)
C15_Witness ==
    \E u \in Units :
        /\ units[u].kind = "span" /\ units[u].polls = 2 /\ units[u].st = "done"
        /\ units[u].before.span # units[u].callPre.span
        /\ units[u].before.span # spans[units[u].ctx.span].parent
        /\ units[u].seen.span = units[u].ctx.span

(* C16: current() returns the ambient log, span and test tracer of the     *)
(* call; a context made earlier, and the clone of it that a wrapper owns,  *)
(* is a value that no later scope, resumption or drop changes;             *)
(* acquiring the scope of a context equal to the ambient state leaves the  *)
(* ambient state as it is while the scope is held, and releasing it        *)
(* leaves it so again.                                                     *)
C16_CurrentIsSnapshot ==
    [][/\ \A i \in 1..Len(ctxs) : i <= Len(ctxs') /\ ctxs'[i] = ctxs[i]
       /\ \A u \in Units : units[u].st # "none" => units'[u].ctx = units[u].ctx
       /\ (Len(ctxs') > Len(ctxs) /\ forks' = forks) =>
             /\ Len(ctxs') = Len(ctxs) + 1
             /\ ctxs'[Len(ctxs')].log = ambient[Main].log
             /\ ctxs'[Len(ctxs')].span = ambient[Main].span
             /\ ctxs'[Len(ctxs')].tracer = ambient[Main].tracer
             /\ ambient' = ambient
       /\ (Len(stack'[Main]) > Len(stack[Main]) /\ Top(stack'[Main]).ctx = current(ambient[Main])) =>
             ambient'[Main] = ambient[Main]
       /\ (Len(stack'[Main]) < Len(stack[Main]) /\ Top(stack[Main]).ctx = current(Top(stack[Main]).pre)) =>
             /\ ambient[Main] = Top(stack[Main]).pre
             /\ ambient'[Main] = Top(stack[Main]).pre
    ]_vars

(* two snapshots that differ in log, span and test tracer: the second,     *)
(* taken inside a resumption of a unit wrapped with another context, was   *)
(* scoped over itself and released during that resumption, and is still    *)
(* the ambient state.                                                      *)
C16_Witness ==
    /\ Len(ctxs) = 2
    /\ Len(stack[Main]) = 1
    /\ Top(stack[Main]).ctx = ctxs[2]
    /\ Top(stack[Main]).pre = ctxs[1]
    /\ ctxs[1].log # ctxs[2].log
    /\ ctxs[1].span # ctxs[2].span
    /\ ctxs[1].tracer # ctxs[2].tracer
    /\ released[2].ctx = ctxs[2] /\ released[2].pre = ctxs[2]
    /\ ambient[Main] = ctxs[2]

(* C17: cloning never forks. No step but with_forked_log makes a log;      *)
(* while a scope or a resumption is the innermost one on the thread, the   *)
(* ambient log is the handle of its context, so an annotation made         *)
(* through the ambient log shows through that context and through every    *)
(* clone of it that a wrapper owns; an annotation made through a forked    *)
(* log leaves the log it was forked beside as it was.                      *)
C17_CloneIsAlias ==
    [][/\ forks' = forks => Len(logs') = Len(logs)
       /\ stack'[Main] # <<>> => current_log(ambient'[Main]) = Top(stack'[Main]).ctx.log
       /\ \A k \in Keys :
             (/\ stack[Main] # <<>>
              /\ k \in logs'[current_log(ambient[Main])]
              /\ k \notin logs[current_log(ambient[Main])]
              /\ stack' = stack) =>
                 /\ k \in logs'[Top(stack[Main]).ctx.log]
                 /\ \A u \in Units :
                       (units[u].st # "none" /\ units[u].ctx = Top(stack[Main]).ctx) =>
                           k \in logs'[units[u].ctx.log]
       /\ forks' # forks =>
             /\ Len(logs') = Len(logs) + 1
             /\ forks'[Len(forks')].out.log = Len(logs')
       /\ \A i \in 1..Len(forks) :
             logs'[forks[i].out.log] # logs[forks[i].out.log] =>
                 \A l \in 1..Len(logs) : l # forks[i].out.log => logs'[l] = logs[l]
    ]_vars

(* an annotation made through the ambient log during a resumption of a     *)
(* unit wrapped with a forked context shows through the context of the     *)
(* other unit, a clone, and not through the log the fork was made beside.  *)
C17_Witness ==
    /\ Len(forks) >= 1
    /\ \A u \in Units : units[u].st # "none" /\ units[u].ctx = forks[1].out
    /\ \E u \in Units : units[u].st = "polling"
    /\ Len(stack[Main]) = 1
    /\ logs[current_log(ambient[Main])] # {}
    /\ forks[1].outKeys = {}
    /\ logs[forks[1].out.log] # {}
    /\ logs[forks[1].pre.log] = {}
    /\ logs[forks[1].src.log] = {}

(* C18: when context C carries a test tracer T, a new root span started    *)
(* on behalf of C belongs to T: a root span started by the inner unit      *)
(* during a resumption of a unit wrapped with C, and the root span made    *)
(* by C.apply_with_tracing_span when C's span is absent, whatever test     *)
(* tracer is ambient at the call.                                          *)
C18_RootSpansOfTestTracer ==
    [][Len(spans') > Len(spans) =>
          LET new == spans'[Len(spans')] IN
          /\ (/\ units' = units
              /\ stack[Main] # <<>>
              /\ Top(stack[Main]).kind = "poll"
              /\ Top(stack[Main]).ctx.tracer # NoTracer
              /\ new.parent = NoSpan) =>
                 new.tracer = Top(stack[Main]).ctx.tracer
          /\ \A u \in Units :
                (/\ units[u].st = "none"
                 /\ units'[u].kind = "span"
                 /\ units'[u].from.tracer # NoTracer
                 /\ units'[u].from.span = NoSpan
                 /\ new.parent = NoSpan) =>
                    new.tracer = units'[u].from.tracer
    ]_vars

====
